---------------------------- MODULE Spec2Model ----------------------------
(***************************************************************************)
(* The expression parser of lox-syntax (src/lox-syntax/src/expr_parser.rs) *)
(* as a state machine.  The recursive descent is run on an explicit call   *)
(* stack: one frame per active function, one action per straight-line     *)
(* piece of a function between two calls.  A call pushes the callee's      *)
(* frame, a return pops the frame and leaves the returned Result in ret,   *)
(* and the `?` operator is the action propagate.                           *)
(*                                                                         *)
(* A token is [kind, val]: its TokenKind and its lexeme.  The span of the  *)
(* i-th token of the stream is i.  WithSpan<T> is [value, span].           *)
(***************************************************************************)
EXTENDS Integers, Sequences, FiniteSets, TLC

VARIABLES
    tokens,     \* the token vector handed to Parser::new, as far as it is fixed
    cursor,     \* Parser's cursor: index of the next token
    stack,      \* the call stack of the descent, innermost frame last
    ret,        \* the Result returned by the call that returned last
    result,     \* what parse() returned to its caller
    eofMode,    \* what advance() does at end-of-stream in this build
    run,        \* 1, or 2 while the parse is repeated on a second stream
    saved       \* result and cursor of the first parse, kept for the second

vars == <<tokens, cursor, stack, ret, result, eofMode, run, saved>>

-----------------------------------------------------------------------------
(* Bounds of the model.                                                    *)

\* longest stream (without its Eof) of the general input family
MaxLen == 5
\* most operators in a stream of the operator-chain family
MaxOps == 3
\* most postfix forms in a stream of the postfix-chain family
MaxForms == 3
\* longest stream (without its Eof) given whole to the two-run specification
EagerLen == 3

-----------------------------------------------------------------------------
(* enum Precedence: the derived PartialOrd is the order of declaration.    *)

PrecNone == 0
PrecAssign == 1
PrecOr == 2
PrecAnd == 3
PrecEquality == 4
PrecComparison == 5
PrecTerm == 6
PrecFactor == 7
PrecUnary == 8
PrecCall == 9
PrecPrimary == 10

\* impl From<TokenKind> for Precedence
PrecedenceFrom(kind) ==
    CASE kind = "Equal" -> PrecAssign
      [] kind = "Or" -> PrecOr
      [] kind = "And" -> PrecAnd
      [] kind \in {"BangEqual", "EqualEqual"} -> PrecEquality
      [] kind \in {"Less", "LessEqual", "Greater", "GreaterEqual"} -> PrecComparison
      [] kind \in {"Plus", "Minus"} -> PrecTerm
      [] kind \in {"Star", "Slash"} -> PrecFactor
      [] kind = "Bang" -> PrecUnary
      [] kind = "LeftParen" -> PrecCall
      [] kind = "Dot" -> PrecCall
      [] OTHER -> PrecNone

-----------------------------------------------------------------------------
(* Tokens and the AST.                                                     *)

Tok(k, v) == [kind |-> k, val |-> v]
EofTok == Tok("Eof", "")

WithSpan(v, s) == [value |-> v, span |-> s]

\* enum Expr
Nil == [tag |-> "Nil"]
This == [tag |-> "This"]
Boolean(b) == [tag |-> "Boolean", val |-> b]
Number(n) == [tag |-> "Number", val |-> n]
String(s) == [tag |-> "String", val |-> s]
Variable(name) == [tag |-> "Variable", name |-> name]
Super(name) == [tag |-> "Super", name |-> name]
Unary(op, right) == [tag |-> "Unary", op |-> op, right |-> right]
Binary(left, op, right) == [tag |-> "Binary", left |-> left, op |-> op, right |-> right]
Logical(left, op, right) == [tag |-> "Logical", left |-> left, op |-> op, right |-> right]
Grouping(e) == [tag |-> "Grouping", inner |-> e]
Call(callee, args) == [tag |-> "Call", callee |-> callee, args |-> args]
Get(object, name) == [tag |-> "Get", object |-> object, name |-> name]
Set(object, name, value) == [tag |-> "Set", object |-> object, name |-> name, value |-> value]
Assign(name, value) == [tag |-> "Assign", name |-> name, value |-> value]

\* enum SyntaxError; a token it carries is the token with its span
Unexpected(t) == [kind |-> "Unexpected", token |-> t]
Expected(k, t) == [kind |-> "Expected", expected |-> k, token |-> t]
ExpectedPrimary(t) == [kind |-> "ExpectedPrimary", token |-> t]
ExpectedUnaryOperator(t) == [kind |-> "ExpectedUnaryOperator", token |-> t]
ExpectedBinaryOperator(t) == [kind |-> "ExpectedBinaryOperator", token |-> t]
InvalidLeftValue(e) == [kind |-> "InvalidLeftValue", expr |-> e]

\* Result<_, SyntaxError>, and the absence of one
Ok(v) == [tag |-> "Ok", value |-> v]
Err(e) == [tag |-> "Err", error |-> e]
NoResult == [tag |-> "None"]
\* the process aborted inside advance()
Panic == [tag |-> "Panic"]
\* Vec<Expr> as a returned value
Args(list) == [tag |-> "Args", list |-> list]

-----------------------------------------------------------------------------
(* The cursor (crate::parser::Parser), from its interface.                 *)

\* the token at the cursor is fixed
Have == cursor <= Len(tokens)

peek == tokens[cursor].kind
peek_token == [kind |-> tokens[cursor].kind, val |-> tokens[cursor].val, span |-> cursor]
is_eof == peek = "Eof"
check(kind) == peek = kind

-----------------------------------------------------------------------------
(* Frames.                                                                 *)

NoExpr == [tag |-> "NoExpr"]
NoOp == WithSpan("", 0)

Frame(fn, pc) ==
    [fn |-> fn, pc |-> pc, prec |-> PrecNone, left |-> NoExpr, op |-> NoOp,
     args |-> <<>>, mark |-> 0]

Running == stack # <<>>
Top == stack[Len(stack)]
At(fn, pc) == Running /\ Top.fn = fn /\ Top.pc = pc
Pop == SubSeq(stack, 1, Len(stack) - 1)
\* the stack with its innermost frame replaced
Goto(f) == Append(Pop, f)
\* the stack after the innermost frame, become f, calls g
Invoke(f, g) == Append(Append(Pop, f), g)

ExprFrame(precedence) == [Frame("parse_expr", "start") EXCEPT !.prec = precedence]
InfixFrame(left) == [Frame("parse_infix", "start") EXCEPT !.left = left]

\* return v to the caller
Return(v) == stack' = Pop /\ ret' = v

\* advance() at end-of-stream: the interface leaves the outcome open, so the
\* build either hands out the end token again or aborts, the same way every
\* time.  The outcomes of an advance() in this state:
advance_outcomes ==
    IF ~is_eof THEN {"next"}
    ELSE IF eofMode = "unknown" THEN {"end_token", "fatal"}
    ELSE {eofMode}

\* advance() with outcome m; the token it returns is peek_token
advance(m) ==
    /\ cursor' = (IF m = "next" THEN cursor + 1 ELSE cursor)
    /\ eofMode' = (IF m = "next" THEN eofMode ELSE m)

\* the process aborts inside advance()
Abort == stack' = <<>> /\ ret' = NoResult /\ result' = Panic

\* expect(kind): the token at the cursor if it is of that kind, else
\* Expected(kind, actual)
expect(kind) ==
    IF check(kind) THEN Ok(peek_token) ELSE Err(Expected(kind, peek_token))

\* expect(kind) consumes the token it returns and nothing else
consume(r) ==
    /\ cursor' = (IF r.tag = "Ok" THEN cursor + 1 ELSE cursor)
    /\ UNCHANGED <<eofMode, result>>

\* expect_identifier (crate::common): expect(Identifier), yielding the name
expect_identifier ==
    LET r == expect("Identifier")
    IN  IF r.tag = "Ok" THEN Ok(WithSpan(r.value.val, r.value.span)) ELSE r

-----------------------------------------------------------------------------
(* The parser.                                                             *)

PrimaryKinds ==
    {"Number", "Nil", "This", "True", "False", "Identifier", "Super", "String"}
BinaryKinds ==
    {"BangEqual", "EqualEqual", "Less", "LessEqual", "Greater", "GreaterEqual",
     "Plus", "Minus", "Star", "Slash"}
LogicalKinds == {"Or", "And"}

\* a fault: the loop goes on at an operator of the bound's own level
BreaksBelow(precedence, next_precedence) == precedence > next_precedence

\* the loop of parse_expr stops on this lookahead
Breaks(precedence, next_precedence) == precedence >= next_precedence

\* pub fn parse
parse ==
    /\ At("parse", "start")
    /\ stack' = Invoke(Frame("parse", "ret"), ExprFrame(PrecNone))
    /\ ret' = NoResult
    /\ UNCHANGED <<tokens, cursor, result, eofMode, run, saved>>

parse_return ==
    /\ At("parse", "ret")
    /\ ret.tag \in {"Ok", "Err"}
    /\ result' = ret
    /\ stack' = Pop
    /\ UNCHANGED <<tokens, cursor, ret, eofMode, run, saved>>

\* the `?` operator: a failure returns from the function that received it
propagate ==
    /\ Running
    /\ Top.fn # "parse"
    /\ ret.tag = "Err"
    /\ stack' = Pop
    /\ UNCHANGED <<tokens, cursor, ret, result, eofMode, run, saved>>

\* fn parse_expr, to its call of parse_prefix
parse_expr ==
    /\ At("parse_expr", "start")
    /\ stack' = Invoke([Top EXCEPT !.pc = "loop"], Frame("parse_prefix", "start"))
    /\ ret' = NoResult
    /\ UNCHANGED <<tokens, cursor, result, eofMode, run, saved>>

\* a fault: the precedence is taken from the token after the lookahead
NextPrecedenceAhead ==
    PrecedenceFrom(IF cursor < Len(tokens) THEN tokens[cursor + 1].kind ELSE peek)

\* next_precedence in the loop of parse_expr
NextPrecedence == PrecedenceFrom(peek)

\* fn parse_expr, one test of its while loop with expr in ret
parse_expr_loop ==
    /\ At("parse_expr", "loop")
    /\ ret.tag = "Ok"
    /\ Have
    /\ IF is_eof \/ Breaks(Top.prec, NextPrecedence)
       THEN Return(ret)
       ELSE /\ stack' = Invoke([Top EXCEPT !.mark = cursor], InfixFrame(ret.value))
            /\ ret' = NoResult
    /\ UNCHANGED <<tokens, cursor, result, eofMode, run, saved>>

\* a fault: `or` and `and` are handed to parse_binary
InfixRuleLogicalAsBinary(kind) ==
    CASE kind \in BinaryKinds \cup LogicalKinds -> "parse_binary"
      [] kind = "Equal" -> "parse_assign"
      [] kind = "LeftParen" -> "parse_call"
      [] kind = "Dot" -> "parse_get"
      [] OTHER -> ""

\* the function parse_infix hands the lookahead to, "" for none
InfixRule(kind) ==
    CASE kind \in BinaryKinds -> "parse_binary"
      [] kind \in LogicalKinds -> "parse_logical"
      [] kind = "Equal" -> "parse_assign"
      [] kind = "LeftParen" -> "parse_call"
      [] kind = "Dot" -> "parse_get"
      [] OTHER -> ""

\* a fault: a lookahead without a rule leaves the left operand as it is
NoInfixRuleKeeps(left) == Ok(left)

\* the last arm of the match of parse_infix
NoInfixRule(left) == Err(Unexpected(peek_token))

\* fn parse_infix
parse_infix ==
    /\ At("parse_infix", "start")
    /\ Have
    /\ IF InfixRule(peek) # ""
       THEN stack' = Goto([Top EXCEPT !.fn = InfixRule(peek)]) /\ ret' = ret
       ELSE Return(NoInfixRule(Top.left))
    /\ UNCHANGED <<tokens, cursor, result, eofMode, run, saved>>

\* a fault: every lookahead is handed to parse_primary
PrefixRuleNoCheck(kind) ==
    CASE kind \in {"Bang", "Minus"} -> "parse_unary"
      [] kind = "LeftParen" -> "parse_grouping"
      [] OTHER -> "parse_primary"

\* the function parse_prefix hands the lookahead to, "" for none
PrefixRule(kind) ==
    CASE kind \in PrimaryKinds -> "parse_primary"
      [] kind \in {"Bang", "Minus"} -> "parse_unary"
      [] kind = "LeftParen" -> "parse_grouping"
      [] OTHER -> ""

\* fn parse_prefix; `.map(|e| e.value)` drops the span parse_primary and
\* parse_grouping wrap their expression in
parse_prefix ==
    /\ At("parse_prefix", "start")
    /\ Have
    /\ IF PrefixRule(peek) # ""
       THEN stack' = Goto(Frame(PrefixRule(peek), "start")) /\ ret' = ret
       ELSE Return(Err(Unexpected(peek_token)))
    /\ UNCHANGED <<tokens, cursor, result, eofMode, run, saved>>

\* fn parse_get, its expect
parse_get ==
    /\ At("parse_get", "start")
    /\ Have
    /\ LET dot == expect("Dot") IN
       /\ consume(dot)
       /\ IF dot.tag = "Err" THEN Return(dot)
          ELSE stack' = Goto([Top EXCEPT !.pc = "name"]) /\ ret' = ret
    /\ UNCHANGED <<tokens, run, saved>>

\* fn parse_get, its advance and match
parse_get_name ==
    /\ At("parse_get", "name")
    /\ Have
    /\ \E m \in advance_outcomes :
       /\ advance(m)
       /\ IF m = "fatal" THEN Abort
          ELSE /\ result' = result
               /\ LET tc == peek_token IN
                  IF tc.kind = "Identifier"
                  THEN Return(Ok(Get(Top.left, WithSpan(tc.val, tc.span))))
                  ELSE Return(Err(Expected("Identifier", tc)))
    /\ UNCHANGED <<tokens, run, saved>>

\* fn parse_call, to its call of parse_arguments
parse_call ==
    /\ At("parse_call", "start")
    /\ Have
    /\ LET paren == expect("LeftParen") IN
       /\ consume(paren)
       /\ IF paren.tag = "Err" THEN Return(paren)
          ELSE /\ stack' = Invoke([Top EXCEPT !.pc = "close"],
                                  Frame("parse_arguments", "start"))
               /\ ret' = NoResult
    /\ UNCHANGED <<tokens, run, saved>>

\* fn parse_call, from the return of parse_arguments
parse_call_close ==
    /\ At("parse_call", "close")
    /\ ret.tag = "Ok"
    /\ Have
    /\ LET paren == expect("RightParen") IN
       /\ consume(paren)
       /\ IF paren.tag = "Err" THEN Return(paren)
          ELSE Return(Ok(Call(Top.left, ret.value.list)))
    /\ UNCHANGED <<tokens, run, saved>>

\* a fault: the argument is put in front
PushFront(args, e) == <<e>> \o args

\* args.push(e)
Push(args, e) == Append(args, e)

\* fn parse_arguments, to the first argument
parse_arguments ==
    /\ At("parse_arguments", "start")
    /\ Have
    /\ IF ~check("RightParen")
       THEN /\ stack' = Invoke([Top EXCEPT !.pc = "more"], ExprFrame(PrecNone))
            /\ ret' = NoResult
       ELSE Return(Ok(Args(Top.args)))
    /\ UNCHANGED <<tokens, cursor, result, eofMode, run, saved>>

\* fn parse_arguments: push the argument in ret, then one test of the while
\* loop and, in the loop, the expect and the call for the next argument
parse_arguments_more ==
    /\ At("parse_arguments", "more")
    /\ ret.tag = "Ok"
    /\ Have
    /\ LET args == Push(Top.args, ret.value) IN
       IF check("Comma")
       THEN LET comma == expect("Comma") IN
            /\ consume(comma)
            /\ IF comma.tag = "Err" THEN Return(comma)
               ELSE /\ stack' = Invoke([Top EXCEPT !.args = args, !.mark = cursor],
                                       ExprFrame(PrecNone))
                    /\ ret' = NoResult
       ELSE Return(Ok(Args(args))) /\ UNCHANGED <<cursor, eofMode, result>>
    /\ UNCHANGED <<tokens, run, saved>>

\* fn parse_assign, to the right-hand side
parse_assign ==
    /\ At("parse_assign", "start")
    /\ Have
    /\ LET equal == expect("Equal") IN
       /\ consume(equal)
       /\ IF equal.tag = "Err" THEN Return(equal)
          ELSE /\ stack' = Invoke([Top EXCEPT !.pc = "right"], ExprFrame(PrecNone))
               /\ ret' = NoResult
    /\ UNCHANGED <<tokens, run, saved>>

\* a fault: a Get on the left is not rewritten to Set
AssignTargetNoSet(left, right) ==
    IF left.tag = "Variable" THEN Ok(Assign(left.name, right))
    ELSE Err(InvalidLeftValue(left))

\* a fault: the failure carries the right-hand side
AssignTargetCarriesRight(left, right) ==
    CASE left.tag = "Variable" -> Ok(Assign(left.name, right))
      [] left.tag = "Get" -> Ok(Set(left.object, left.name, right))
      [] OTHER -> Err(InvalidLeftValue(right))

\* the match on left that ends parse_assign
AssignTarget(left, right) ==
    CASE left.tag = "Variable" -> Ok(Assign(left.name, right))
      [] left.tag = "Get" -> Ok(Set(left.object, left.name, right))
      [] OTHER -> Err(InvalidLeftValue(left))

\* fn parse_assign, from the return of the right-hand side
parse_assign_right ==
    /\ At("parse_assign", "right")
    /\ ret.tag = "Ok"
    /\ Return(AssignTarget(Top.left, ret.value))
    /\ UNCHANGED <<tokens, cursor, result, eofMode, run, saved>>

\* fn parse_logical_op, on the token advance() returned
parse_logical_op(tc) ==
    IF tc.kind \in {"And", "Or"} THEN Ok(WithSpan(tc.kind, tc.span))
    ELSE Err(ExpectedUnaryOperator(tc))

\* fn parse_unary_op, on the token advance() returned
parse_unary_op(tc) ==
    IF tc.kind \in {"Bang", "Minus"} THEN Ok(WithSpan(tc.kind, tc.span))
    ELSE Err(ExpectedUnaryOperator(tc))

\* fn parse_binary_op, on the token advance() returned
parse_binary_op(tc) ==
    IF tc.kind \in BinaryKinds THEN Ok(WithSpan(tc.kind, tc.span))
    ELSE Err(ExpectedBinaryOperator(tc))

\* fn parse_logical, to the right operand
parse_logical ==
    /\ At("parse_logical", "start")
    /\ Have
    /\ \E m \in advance_outcomes :
       /\ advance(m)
       /\ IF m = "fatal" THEN Abort
          ELSE /\ result' = result
               /\ LET precedence == PrecedenceFrom(peek)
                      operator == parse_logical_op(peek_token)
                  IN  IF operator.tag = "Err" THEN Return(operator)
                      ELSE /\ stack' = Invoke([Top EXCEPT !.pc = "right",
                                                          !.op = operator.value],
                                              ExprFrame(precedence))
                           /\ ret' = NoResult
    /\ UNCHANGED <<tokens, run, saved>>

\* fn parse_logical, from the return of the right operand
parse_logical_right ==
    /\ At("parse_logical", "right")
    /\ ret.tag = "Ok"
    /\ Return(Ok(Logical(Top.left, Top.op, ret.value)))
    /\ UNCHANGED <<tokens, cursor, result, eofMode, run, saved>>

\* fn parse_grouping, to the inner expression
parse_grouping ==
    /\ At("parse_grouping", "start")
    /\ Have
    /\ LET left_paren == expect("LeftParen") IN
       /\ consume(left_paren)
       /\ IF left_paren.tag = "Err" THEN Return(left_paren)
          ELSE /\ stack' = Invoke([Top EXCEPT !.pc = "close"], ExprFrame(PrecNone))
               /\ ret' = NoResult
    /\ UNCHANGED <<tokens, run, saved>>

\* fn parse_grouping, from the return of the inner expression
parse_grouping_close ==
    /\ At("parse_grouping", "close")
    /\ ret.tag = "Ok"
    /\ Have
    /\ LET right_paren == expect("RightParen") IN
       /\ consume(right_paren)
       /\ IF right_paren.tag = "Err" THEN Return(right_paren)
          ELSE Return(Ok(Grouping(ret.value)))
    /\ UNCHANGED <<tokens, run, saved>>

\* fn parse_binary, to the right operand
parse_binary ==
    /\ At("parse_binary", "start")
    /\ Have
    /\ \E m \in advance_outcomes :
       /\ advance(m)
       /\ IF m = "fatal" THEN Abort
          ELSE /\ result' = result
               /\ LET precedence == PrecedenceFrom(peek)
                      operator == parse_binary_op(peek_token)
                  IN  IF operator.tag = "Err" THEN Return(operator)
                      ELSE /\ stack' = Invoke([Top EXCEPT !.pc = "right",
                                                          !.op = operator.value],
                                              ExprFrame(precedence))
                           /\ ret' = NoResult
    /\ UNCHANGED <<tokens, run, saved>>

\* fn parse_binary, from the return of the right operand
parse_binary_right ==
    /\ At("parse_binary", "right")
    /\ ret.tag = "Ok"
    /\ Return(Ok(Binary(Top.left, Top.op, ret.value)))
    /\ UNCHANGED <<tokens, cursor, result, eofMode, run, saved>>

\* a fault: the operand is parsed with the lowest bound
UnaryBoundNone == PrecNone

\* the bound parse_unary parses its operand with
UnaryBound == PrecUnary

\* fn parse_unary, to the operand
parse_unary ==
    /\ At("parse_unary", "start")
    /\ Have
    /\ \E m \in advance_outcomes :
       /\ advance(m)
       /\ IF m = "fatal" THEN Abort
          ELSE /\ result' = result
               /\ LET operator == parse_unary_op(peek_token)
                  IN  IF operator.tag = "Err" THEN Return(operator)
                      ELSE /\ stack' = Invoke([Top EXCEPT !.pc = "right",
                                                          !.op = operator.value],
                                              ExprFrame(UnaryBound))
                           /\ ret' = NoResult
    /\ UNCHANGED <<tokens, run, saved>>

\* fn parse_unary, from the return of the operand
parse_unary_right ==
    /\ At("parse_unary", "right")
    /\ ret.tag = "Ok"
    /\ Return(Ok(Unary(Top.op, ret.value)))
    /\ UNCHANGED <<tokens, cursor, result, eofMode, run, saved>>

\* the match of parse_primary on the token advance() returned, but for super
Leaf(tc) ==
    CASE tc.kind = "Nil" -> Ok(Nil)
      [] tc.kind = "This" -> Ok(This)
      [] tc.kind = "Number" -> Ok(Number(tc.val))
      [] tc.kind = "True" -> Ok(Boolean(TRUE))
      [] tc.kind = "False" -> Ok(Boolean(FALSE))
      [] tc.kind = "String" -> Ok(String(tc.val))
      [] tc.kind = "Identifier" -> Ok(Variable(WithSpan(tc.val, tc.span)))
      [] OTHER -> Err(ExpectedPrimary(tc))

\* fn parse_primary
parse_primary ==
    /\ At("parse_primary", "start")
    /\ Have
    /\ \E m \in advance_outcomes :
       /\ advance(m)
       /\ IF m = "fatal" THEN Abort
          ELSE /\ result' = result
               /\ IF peek = "Super"
                  THEN stack' = Goto(Frame("parse_super", "start")) /\ ret' = ret
                  ELSE Return(Leaf(peek_token))
    /\ UNCHANGED <<tokens, run, saved>>

\* fn parse_super, its expect
parse_super ==
    /\ At("parse_super", "start")
    /\ Have
    /\ LET dot == expect("Dot") IN
       /\ consume(dot)
       /\ IF dot.tag = "Err" THEN Return(dot)
          ELSE stack' = Goto([Top EXCEPT !.pc = "name"]) /\ ret' = ret
    /\ UNCHANGED <<tokens, run, saved>>

\* fn parse_super, its expect_identifier
parse_super_name ==
    /\ At("parse_super", "name")
    /\ Have
    /\ LET name == expect_identifier IN
       /\ consume(name)
       /\ IF name.tag = "Err" THEN Return(name)
          ELSE Return(Ok(Super(name.value)))
    /\ UNCHANGED <<tokens, run, saved>>

\* one step of the parser
Parser ==
    \/ parse \/ parse_return \/ propagate
    \/ parse_expr \/ parse_expr_loop
    \/ parse_infix \/ parse_prefix
    \/ parse_get \/ parse_get_name
    \/ parse_call \/ parse_call_close
    \/ parse_arguments \/ parse_arguments_more
    \/ parse_assign \/ parse_assign_right
    \/ parse_logical \/ parse_logical_right
    \/ parse_grouping \/ parse_grouping_close
    \/ parse_binary \/ parse_binary_right
    \/ parse_unary \/ parse_unary_right
    \/ parse_primary \/ parse_super \/ parse_super_name

-----------------------------------------------------------------------------
(* The inputs: token streams, each ended by the Eof token.                 *)

K(kind) == Tok(kind, "")
N(v) == Tok("Number", v)
I(v) == Tok("Identifier", v)

\* the inputs of the tests of expr_parser.rs, tokenized
TestInputs ==
    { <<K("Nil")>>, <<N("1.0")>>, <<N("1")>>, <<K("True")>>, <<K("False")>>,
      <<Tok("String", "test")>>, <<I("test")>>, <<K("This")>>,
      <<K("Super"), K("Dot"), I("iets")>>,
      <<K("Minus"), K("Nil")>>, <<K("Bang"), K("Nil")>>,
      <<K("Bang"), K("Bang"), K("Nil")>>, <<K("Bang"), K("Minus"), K("Nil")>>,
      <<K("Minus"), K("Bang"), K("Nil")>>,
      <<N("1"), K("Star"), N("2"), K("Plus"), N("3"), K("Star"), N("4")>>,
      <<K("Minus"), N("1"), K("Star"), K("Minus"), N("2")>>,
      <<N("1"), K("Plus"), N("2"), N("3")>>, <<N("1"), K("Plus")>>,
      <<K("LeftParen"), N("1"), K("RightParen")>>,
      <<K("LeftParen"), K("LeftParen"), N("1"), K("RightParen"), K("RightParen")>>,
      <<K("LeftParen"), N("1"), K("Plus"), N("2"), K("RightParen"), K("Star"),
        K("LeftParen"), N("1"), K("Plus"), N("2"), K("RightParen")>>,
      <<K("LeftParen"), N("1")>>, <<K("LeftParen"), N("1"), K("RightBrace")>>,
      <<K("True"), K("Or"), K("False")>>, <<K("True"), K("And"), K("False")>>,
      <<N("1"), K("And"), N("2"), K("Or"), N("3"), K("And"), N("4")>>,
      <<I("a"), K("Equal"), N("3")>>,
      <<I("a"), K("Equal"), I("b"), K("Equal"), N("3")>>,
      <<I("a"), K("Equal")>>, <<N("3"), K("Equal"), N("3")>>,
      <<I("a"), K("Equal"), N("1"), K("Plus"), N("2")>>,
      <<I("a"), K("LeftParen"), K("RightParen")>>,
      <<I("a"), K("LeftParen"), N("3"), K("RightParen")>>,
      <<I("a"), K("LeftParen"), N("3"), K("Comma"), N("4"), K("RightParen")>>,
      <<K("Minus"), I("a"), K("LeftParen"), N("3"), K("RightParen")>>,
      <<I("a"), K("LeftParen"), N("3"), K("RightParen"), K("Plus"),
        I("a"), K("LeftParen"), N("3"), K("RightParen")>>,
      <<I("a"), K("LeftParen"), N("3"), K("Comma"), K("RightParen")>>,
      <<I("a"), K("Dot"), I("b")>>,
      <<I("a"), K("Dot"), I("b"), K("Dot"), I("c")>>,
      <<I("a"), K("Dot"), I("b"), K("LeftParen"), N("3"), K("RightParen"),
        K("Dot"), I("c")>>,
      <<I("a"), K("Dot"), I("b"), K("Equal"), N("3")>> }

\* the postfix forms of the postfix-chain family
Forms ==
    { <<K("Dot"), I("b")>>,
      <<K("LeftParen"), K("RightParen")>>,
      <<K("LeftParen"), N("3"), K("RightParen")>>,
      <<K("LeftParen"), N("3"), K("Comma"), I("c"), K("RightParen")>> }

\* an identifier followed by at most n postfix forms
RECURSIVE PostfixChains(_)
PostfixChains(n) ==
    IF n = 0 THEN {<<I("a")>>}
    ELSE PostfixChains(n - 1) \cup {c \o f : c \in PostfixChains(n - 1), f \in Forms}

\* the streams given one by one
Listed == {s \o <<EofTok>> : s \in TestInputs \cup PostfixChains(MaxForms)}

\* the tokens of the general family: every kind the parser tells apart by its
\* role, one or two of each role
Core ==
    { N("1"), I("a"), K("Nil"), K("Super"), K("Bang"), K("Minus"), K("Star"),
      K("EqualEqual"), K("And"), K("Equal"), K("LeftParen"), K("RightParen"),
      K("Dot"), K("Comma"), K("Semicolon") }

\* the operators of the operator-chain family: every binary and logical one
Operators == {K(k) : k \in BinaryKinds \cup LogicalKinds}

\* p is a number, an operator, a number, ...
IsChain(p) ==
    \A i \in 1..Len(p) : IF i % 2 = 1 THEN p[i] = N("1") ELSE p[i] \in Operators

\* the tokens that may follow p in a stream of the general family
GeneralNext(p) ==
    IF \E i \in 1..Len(p) : p[i] \notin Core THEN {}
    ELSE {EofTok} \cup (IF Len(p) < MaxLen THEN Core ELSE {})

\* the tokens that may follow p in a stream of the operator-chain family
ChainNext(p) ==
    IF ~IsChain(p) THEN {}
    ELSE IF Len(p) % 2 = 0 THEN {N("1"), EofTok}
    ELSE {EofTok} \cup (IF Len(p) < 2 * MaxOps THEN Operators ELSE {})

\* the tokens that may follow p in a listed stream
ListedNext(p) ==
    {s[Len(p) + 1] : s \in {s \in Listed : Len(s) > Len(p) /\ SubSeq(s, 1, Len(p)) = p}}

\* the tokens that may follow p in an input
NextTokens(p) == GeneralNext(p) \cup ChainNext(p) \cup ListedNext(p)

\* the functions' pieces that start without looking at the cursor
Blind ==
    { <<"parse", "start">>, <<"parse", "ret">>, <<"parse_expr", "start">>,
      <<"parse_unary", "right">>, <<"parse_binary", "right">>,
      <<"parse_logical", "right">>, <<"parse_assign", "right">> }

\* The token vector is fixed before the parse; which vector it is is decided
\* here token by token, when the parser first reads the token at the cursor.
Tokenize ==
    /\ Running
    /\ run = 1
    /\ ~Have
    /\ ret.tag # "Err"
    /\ <<Top.fn, Top.pc>> \notin Blind
    /\ \E t \in NextTokens(tokens) : tokens' = Append(tokens, t)
    /\ UNCHANGED <<cursor, stack, ret, result, eofMode, run, saved>>

Init ==
    /\ tokens = <<>>
    /\ cursor = 1
    /\ stack = <<Frame("parse", "start")>>
    /\ ret = NoResult
    /\ result = NoResult
    /\ eofMode = "unknown"
    /\ run = 1
    /\ saved = NoResult

Next == Parser \/ Tokenize

Spec == Init /\ [][Next]_vars

\* The parser is one thread of straight-line code: it takes its next step.
FairSpec == Spec /\ WF_vars(Next)

\* the tokens of the streams given whole
Probe ==
    { N("1"), I("a"), K("Minus"), K("Bang"), K("Equal"), K("LeftParen"),
      K("RightParen"), K("Dot"), K("Comma") }

\* the sequences of at most n tokens of Probe
RECURSIVE Upto(_)
Upto(n) ==
    IF n = 0 THEN {<<>>}
    ELSE Upto(n - 1) \cup {Append(s, t) : s \in Upto(n - 1), t \in Probe}

\* the streams given whole: the listed ones and every short one
EagerStreams == Listed \cup {s \o <<EofTok>> : s \in Upto(EagerLen)}

\* the streams that are the given one up to and including the token at the
\* cursor and differ from it after
Alternatives ==
    IF tokens[cursor] = EofTok THEN {}
    ELSE LET n == IF EagerLen - cursor > 1 THEN EagerLen - cursor ELSE 1
         IN  {SubSeq(tokens, 1, cursor) \o s \o <<EofTok>> : s \in Upto(n)} \ {tokens}

InitWhole ==
    /\ tokens \in EagerStreams
    /\ cursor = 1
    /\ stack = <<Frame("parse", "start")>>
    /\ ret = NoResult
    /\ result = NoResult
    /\ eofMode = "unknown"
    /\ run = 1
    /\ saved = NoResult

\* parse() has returned: the same build parses a second stream, which is the
\* first up to and including the token the cursor was left on
Rerun ==
    /\ stack = <<>>
    /\ run = 1
    /\ \E alt \in Alternatives : tokens' = alt
    /\ cursor' = 1
    /\ stack' = <<Frame("parse", "start")>>
    /\ ret' = NoResult
    /\ result' = NoResult
    /\ run' = 2
    /\ saved' = [result |-> result, cursor |-> cursor]
    /\ UNCHANGED eofMode

NextTwoRuns == Parser \/ Rerun

SpecTwoRuns == InitWhole /\ [][NextTwoRuns]_vars

\* parse() has returned, or the process has aborted
Done == stack = <<>>

-----------------------------------------------------------------------------
(* What the claims speak of.                                               *)

\* the i-th token with its span
PosTok(i) == [kind |-> tokens[i].kind, val |-> tokens[i].val, span |-> i]

\* the tokens the parse consumed
Consumed == SubSeq(tokens, 1, cursor - 1)

\* the stream is fixed to its end, and s is the stream without its Eof
WholeInput(s) == tokens = s \o <<EofTok>>

Num(v) == Number(v)
Var(v, i) == Variable(WithSpan(v, i))
Op(kind, i) == WithSpan(kind, i)

\* the tokens an expression was written with, in order
RECURSIVE Yield(_)
RECURSIVE YieldArgs(_)
Yield(e) ==
    CASE e.tag = "Nil" -> <<K("Nil")>>
      [] e.tag = "This" -> <<K("This")>>
      [] e.tag = "Boolean" -> <<K(IF e.val THEN "True" ELSE "False")>>
      [] e.tag = "Number" -> <<N(e.val)>>
      [] e.tag = "String" -> <<Tok("String", e.val)>>
      [] e.tag = "Variable" -> <<I(e.name.value)>>
      [] e.tag = "Super" -> <<K("Super"), K("Dot"), I(e.name.value)>>
      [] e.tag = "Unary" -> <<K(e.op.value)>> \o Yield(e.right)
      [] e.tag \in {"Binary", "Logical"} ->
            Yield(e.left) \o <<K(e.op.value)>> \o Yield(e.right)
      [] e.tag = "Grouping" -> <<K("LeftParen")>> \o Yield(e.inner) \o <<K("RightParen")>>
      [] e.tag = "Call" ->
            Yield(e.callee) \o <<K("LeftParen")>> \o YieldArgs(e.args) \o <<K("RightParen")>>
      [] e.tag = "Get" -> Yield(e.object) \o <<K("Dot"), I(e.name.value)>>
      [] e.tag = "Set" ->
            Yield(e.object) \o <<K("Dot"), I(e.name.value), K("Equal")>> \o Yield(e.value)
      [] e.tag = "Assign" -> <<I(e.name.value), K("Equal")>> \o Yield(e.value)
YieldArgs(args) ==
    IF args = <<>> THEN <<>>
    ELSE IF Len(args) = 1 THEN Yield(args[1])
    ELSE Yield(args[1]) \o <<K("Comma")>> \o YieldArgs(Tail(args))

-----------------------------------------------------------------------------
(* C1 *)

\* the operands of C1's streams: the primaries of one token
OperandKinds == PrimaryKinds \ {"Super"}

\* the levels of the claim, lowest first
Level(kind) ==
    CASE kind = "Or" -> 1
      [] kind = "And" -> 2
      [] kind \in {"EqualEqual", "BangEqual"} -> 3
      [] kind \in {"Less", "LessEqual", "Greater", "GreaterEqual"} -> 4
      [] kind \in {"Plus", "Minus"} -> 5
      [] kind \in {"Star", "Slash"} -> 6

\* s is operand, operator, operand, ..., operand
OperandChain(s) ==
    /\ Len(s) % 2 = 1
    /\ \A i \in 1..Len(s) :
         IF i % 2 = 1 THEN s[i].kind \in OperandKinds
         ELSE s[i].kind \in BinaryKinds \cup LogicalKinds

\* The tree of the operands lo..hi of chain s: split at the last operator of
\* the lowest level, so that higher levels bind first and a level groups to
\* the left.
RECURSIVE ChainTree(_, _, _)
ChainTree(s, lo, hi) ==
    IF lo = hi
    THEN Leaf([kind |-> s[lo].kind, val |-> s[lo].val, span |-> lo]).value
    ELSE LET ops == {i \in lo..hi : i % 2 = 0}
             at == CHOOSE i \in ops :
                     \A j \in ops : \/ Level(s[j].kind) > Level(s[i].kind)
                                    \/ Level(s[j].kind) = Level(s[i].kind) /\ j <= i
             left == ChainTree(s, lo, at - 1)
             right == ChainTree(s, at + 1, hi)
         IN  IF s[at].kind \in LogicalKinds
             THEN Logical(left, Op(s[at].kind, at), right)
             ELSE Binary(left, Op(s[at].kind, at), right)

\* C1: when the stream is a chain of operands separated by binary and logical
\* operators, parse returns the tree in which operators of a higher level bind
\* first and operators of one level group to the left, Binary nodes for the
\* binary operators and Logical nodes for `or` and `and`, and leaves the
\* cursor on the Eof token.
C1_ChainTree ==
    Done /\ tokens # <<>> /\ tokens[Len(tokens)] = EofTok
         /\ OperandChain(SubSeq(tokens, 1, Len(tokens) - 1))
    => /\ result = Ok(ChainTree(tokens, 1, Len(tokens) - 1))
       /\ cursor = Len(tokens)

\* `1*2+3*4` has been parsed, as Binary(Binary(1,*,2),+,Binary(3,*,4))
C1_Witness ==
    /\ Done
    /\ WholeInput(<<N("1"), K("Star"), N("2"), K("Plus"), N("3"), K("Star"), N("4")>>)
    /\ result = Ok(Binary(Binary(Num("1"), Op("Star", 2), Num("2")), Op("Plus", 4),
                          Binary(Num("3"), Op("Star", 6), Num("4"))))

-----------------------------------------------------------------------------
(* C2 *)

\* the frame of a parse_assign whose right-hand side has returned Ok
AssignHasRight == At("parse_assign", "right") /\ ret.tag = "Ok"

\* a failure returned by any function is what every caller returns, up to parse
FailureStays == ret.tag = "Err" => ret' = ret /\ cursor' = cursor
FailureReturned == Done /\ ret.tag = "Err" => result = ret

\* at the return of parse: `name = rhs` gave Assign(name, rhs) and
\* `name.member = rhs` gave Set(name, member, rhs), rhs written with every
\* token consumed after the `=`
C2_Final ==
    Done /\ result.tag = "Ok" /\ Len(tokens) >= 4 =>
      /\ tokens[1].kind = "Identifier" /\ tokens[2].kind = "Equal" =>
           /\ result.value.tag = "Assign"
           /\ result.value.name = WithSpan(tokens[1].val, 1)
           /\ Yield(result.value.value) = SubSeq(tokens, 3, cursor - 1)
      /\ (tokens[1].kind = "Identifier" /\ tokens[2].kind = "Dot"
            /\ tokens[3].kind = "Identifier" /\ tokens[4].kind = "Equal") =>
           /\ result.value.tag = "Set"
           /\ result.value.object = Var(tokens[1].val, 1)
           /\ result.value.name = WithSpan(tokens[3].val, 3)
           /\ Yield(result.value.value) = SubSeq(tokens, 5, cursor - 1)

\* the examples of the claim
C2_Examples ==
    Done =>
      /\ WholeInput(<<I("a"), K("Equal"), I("b"), K("Equal"), N("3")>>) =>
           result = Ok(Assign(WithSpan("a", 1), Assign(WithSpan("b", 3), Num("3"))))
      /\ WholeInput(<<I("a"), K("Equal"), N("1"), K("Plus"), N("2")>>) =>
           result = Ok(Assign(WithSpan("a", 1), Binary(Num("1"), Op("Plus", 4), Num("2"))))
      /\ WholeInput(<<I("a"), K("Dot"), I("b"), K("Equal"), N("3")>>) =>
           result = Ok(Set(Var("a", 1), WithSpan("b", 3), Num("3")))

\* the right-hand side of every assignment is parsed with the lowest bound
C2_Bound ==
    \A i \in 1..Len(stack) - 1 :
        stack[i].fn = "parse_assign" /\ stack[i].pc = "right" =>
            stack[i + 1].fn = "parse_expr" /\ stack[i + 1].prec = PrecNone

\* the return of parse_assign on a Variable or a Get
C2_Step ==
    AssignHasRight =>
      /\ Top.left.tag = "Variable" =>
           stack' = Pop /\ ret' = Ok(Assign(Top.left.name, ret.value))
      /\ Top.left.tag = "Get" =>
           stack' = Pop /\ ret' = Ok(Set(Top.left.object, Top.left.name, ret.value))

\* C2: when `=` follows a left expression that is a Variable or a Get and the
\* right-hand side parses successfully, the assignment is Assign(name, rhs) for
\* a Variable and Set(object, member, rhs) for a Get, rhs being the entire
\* following expression parsed with the lowest bound, so that assignment nests
\* to the right.
C2_Assignment == [](C2_Final /\ C2_Examples /\ C2_Bound) /\ [][C2_Step]_vars

\* `a=b=3` has been parsed, as Assign(a, Assign(b, 3))
C2_Witness ==
    /\ Done
    /\ WholeInput(<<I("a"), K("Equal"), I("b"), K("Equal"), N("3")>>)
    /\ result = Ok(Assign(WithSpan("a", 1), Assign(WithSpan("b", 3), Num("3"))))

-----------------------------------------------------------------------------
(* C3 *)

LeftValueTags == {"Variable", "Get"}

\* C3 as claimed: a parse_assign entered on a left expression that is neither
\* a Variable nor a Get returns InvalidLeftValue carrying that expression.
C3_AsClaimed ==
    [][Running /\ Top.fn = "parse_assign" /\ Top.left.tag \notin LeftValueTags
         /\ stack' = Pop
       => ret' = Err(InvalidLeftValue(Top.left))]_vars

\* C3, amended: when `=` is dispatched on a left expression that is neither a
\* Variable nor a Get and the right-hand side parses successfully, parse fails
\* with InvalidLeftValue carrying exactly that left expression.
C3_InvalidLeftValue ==
    /\ [][AssignHasRight /\ Top.left.tag \notin LeftValueTags
          => stack' = Pop /\ ret' = Err(InvalidLeftValue(Top.left))]_vars
    /\ [][FailureStays]_vars
    /\ [](FailureReturned)
    /\ [](Done /\ WholeInput(<<N("3"), K("Equal"), N("3")>>)
            => result = Err(InvalidLeftValue(Num("3"))))

\* `3=3` has been parsed, and failed with InvalidLeftValue(Number(3))
C3_Witness ==
    /\ Done
    /\ WholeInput(<<N("3"), K("Equal"), N("3")>>)
    /\ result = Err(InvalidLeftValue(Num("3")))

-----------------------------------------------------------------------------
(* C4 *)

\* the infix forms the dispatcher handles
InfixForms == BinaryKinds \cup LogicalKinds \cup {"Equal", "LeftParen", "Dot"}

\* C4 as claimed: when the token after a complete expression is not one of the
\* infix forms, `!` included, the loop of parse_expr returns the expression
\* built so far and leaves the cursor on that token.
C4_AsClaimed ==
    [][At("parse_expr", "loop") /\ ret.tag = "Ok" /\ Have /\ peek \notin InfixForms
       => stack' = Pop /\ ret' = ret /\ cursor' = cursor]_vars

-----------------------------------------------------------------------------
(* C5 *)

\* the tokens that can begin an expression
CanBegin(kind) == kind \in PrimaryKinds \cup {"Bang", "Minus", "LeftParen"}

\* token i, which the parser has consumed, asks for an operand after it, the
\* token at the cursor (0: the start of the parse)
OperandRequiredAfter(i) ==
    \/ i = 0
    \/ /\ i > 0
       /\ \/ tokens[i].kind \in BinaryKinds \cup LogicalKinds \cup {"Bang", "Equal", "Comma"}
          \/ tokens[i].kind = "LeftParen" /\ tokens[cursor].kind # "RightParen"

\* at the return of parse: the parser has looked at the token at the cursor,
\* after a token that asks for an operand, and it cannot begin an expression
C5_Final ==
    Done /\ result # Panic /\ Have /\ OperandRequiredAfter(cursor - 1)
         /\ ~CanBegin(tokens[cursor].kind)
    => result = Err(Unexpected(PosTok(cursor)))

\* the examples of the claim
C5_Examples ==
    Done =>
      /\ tokens = <<N("1"), K("Plus"), EofTok>> =>
           result = Err(Unexpected(PosTok(3))) /\ cursor = 3
      /\ tokens = <<I("a"), K("Equal"), EofTok>> =>
           result = Err(Unexpected(PosTok(3))) /\ cursor = 3
      /\ tokens = <<I("a"), K("LeftParen"), N("3"), K("Comma"), K("RightParen")>> =>
           result = Err(Unexpected(PosTok(5))) /\ cursor = 5

\* C5: whenever an operand is required and the token at the cursor cannot
\* begin an expression, the Eof token included, parse fails with Unexpected
\* carrying exactly that token, and the token is not consumed.
C5_Unexpected ==
    /\ [][At("parse_prefix", "start") /\ Have /\ ~CanBegin(peek)
          => stack' = Pop /\ ret' = Err(Unexpected(peek_token)) /\ cursor' = cursor]_vars
    /\ [][FailureStays]_vars
    /\ [](FailureReturned /\ C5_Final /\ C5_Examples)

\* `a(3,)` has been parsed, and failed with Unexpected on the `)`, not consumed
C5_Witness ==
    /\ Done
    /\ tokens = <<I("a"), K("LeftParen"), N("3"), K("Comma"), K("RightParen")>>
    /\ result = Err(Unexpected([kind |-> "RightParen", val |-> "", span |-> 5]))
    /\ cursor = 5

-----------------------------------------------------------------------------
(* C6 *)

\* e is a primary, a grouping or a unary, extended by calls and member accesses
RECURSIVE PostfixOfPrefix(_)
PostfixOfPrefix(e) ==
    CASE e.tag = "Call" -> PostfixOfPrefix(e.callee)
      [] e.tag = "Get" -> PostfixOfPrefix(e.object)
      [] OTHER -> e.tag \in {"Nil", "This", "Boolean", "Number", "String", "Variable",
                             "Super", "Grouping", "Unary"}

\* the operand of every Unary node of e is such an expression
RECURSIVE UnaryOperands(_)
UnaryOperands(e) ==
    CASE e.tag = "Unary" -> PostfixOfPrefix(e.right) /\ UnaryOperands(e.right)
      [] e.tag \in {"Binary", "Logical"} -> UnaryOperands(e.left) /\ UnaryOperands(e.right)
      [] e.tag = "Grouping" -> UnaryOperands(e.inner)
      [] e.tag = "Call" ->
            UnaryOperands(e.callee) /\ \A i \in 1..Len(e.args) : UnaryOperands(e.args[i])
      [] e.tag = "Get" -> UnaryOperands(e.object)
      [] e.tag = "Set" -> UnaryOperands(e.object) /\ UnaryOperands(e.value)
      [] e.tag = "Assign" -> UnaryOperands(e.value)
      [] OTHER -> TRUE

\* the stream is prefix operators, one operand, Eof
StackedPrefix ==
    /\ Len(tokens) >= 3
    /\ tokens[Len(tokens)] = EofTok
    /\ tokens[Len(tokens) - 1].kind \in OperandKinds
    /\ \A i \in 1..Len(tokens) - 2 : tokens[i].kind \in {"Bang", "Minus"}

\* the Unary nodes of the prefix operators from token i on, nested in order
RECURSIVE Nested(_)
Nested(i) ==
    IF tokens[i].kind \in {"Bang", "Minus"}
    THEN Unary(Op(tokens[i].kind, i), Nested(i + 1))
    ELSE Leaf(PosTok(i)).value

\* the examples of the claim
C6_Examples ==
    Done =>
      /\ WholeInput(<<K("Minus"), N("1"), K("Star"), K("Minus"), N("2")>>) =>
           result = Ok(Binary(Unary(Op("Minus", 1), Num("1")), Op("Star", 3),
                              Unary(Op("Minus", 4), Num("2"))))
      /\ WholeInput(<<K("Minus"), I("a"), K("LeftParen"), N("3"), K("RightParen")>>) =>
           result = Ok(Unary(Op("Minus", 1), Call(Var("a", 2), <<Num("3")>>)))
      /\ WholeInput(<<K("Bang"), K("Minus"), K("Nil")>>) =>
           result = Ok(Unary(Op("Bang", 1), Unary(Op("Minus", 2), Nil)))

\* C6: the operand of every Unary node parse produces is a prefix expression
\* extended only by call and member-access postfixes, never by a binary or
\* logical operator or `=`; n stacked prefix operators give n nested Unary
\* nodes in source order.
C6_UnaryOperand ==
    /\ Done /\ result.tag = "Ok" => UnaryOperands(result.value)
    /\ Done /\ StackedPrefix => result = Ok(Nested(1))
    /\ C6_Examples

\* `-1*-2` has been parsed, as Binary(Unary(-,1),*,Unary(-,2))
C6_Witness ==
    /\ Done
    /\ WholeInput(<<K("Minus"), N("1"), K("Star"), K("Minus"), N("2")>>)
    /\ result = Ok(Binary(Unary(Op("Minus", 1), Num("1")), Op("Star", 3),
                          Unary(Op("Minus", 4), Num("2"))))

-----------------------------------------------------------------------------
(* C7 *)

\* s[lo..hi] is empty or operand, comma, operand, ..., operand
SimpleArgs(s, lo, hi) ==
    \/ lo > hi
    \/ /\ (hi - lo) % 2 = 0
       /\ \A k \in lo..hi :
            IF (k - lo) % 2 = 0 THEN s[k].kind \in OperandKinds ELSE s[k].kind = "Comma"

\* the `)` that closes the `(` at i, when no other parenthesis lies between
Closing(s, i) ==
    CHOOSE j \in i + 1..Len(s) :
        s[j].kind = "RightParen" /\ \A k \in i + 1..j - 1 : s[k].kind # "RightParen"

\* s from i on is a sequence of forms `.name` and `(operand, ..., operand)`
RECURSIVE PostfixForms(_, _)
PostfixForms(s, i) ==
    \/ i > Len(s)
    \/ /\ i < Len(s)
       /\ s[i].kind = "Dot" /\ s[i + 1].kind = "Identifier"
       /\ PostfixForms(s, i + 2)
    \/ /\ i < Len(s)
       /\ s[i].kind = "LeftParen"
       /\ \E j \in i + 1..Len(s) : s[j].kind = "RightParen"
       /\ SimpleArgs(s, i + 1, Closing(s, i) - 1)
       /\ PostfixForms(s, Closing(s, i) + 1)

\* the forms of s from i on applied one after the other, from left to right,
\* each to what the forms before it made of e
RECURSIVE Applied(_, _, _)
Applied(s, i, e) ==
    IF i > Len(s) THEN e
    ELSE IF s[i].kind = "Dot"
    THEN Applied(s, i + 2, Get(e, WithSpan(s[i + 1].val, i + 1)))
    ELSE LET j == Closing(s, i)
             n == (j - i) \div 2
             arg(k) == Leaf([kind |-> s[i + 2 * k - 1].kind, val |-> s[i + 2 * k - 1].val,
                             span |-> i + 2 * k - 1]).value
         IN  Applied(s, j + 1, Call(e, [k \in 1..n |-> arg(k)]))

\* the stream is an operand, postfix forms, Eof
PostfixStream ==
    /\ Len(tokens) >= 2
    /\ tokens[Len(tokens)] = EofTok
    /\ tokens[1].kind \in OperandKinds
    /\ PostfixForms(SubSeq(tokens, 1, Len(tokens) - 1), 2)

\* C7: postfix forms `.name` and `(e1, ..., en)` after a prefix expression are
\* applied left to right, each to everything built so far, and each Call holds
\* exactly the argument expressions written between its parentheses, in source
\* order, none included.
C7_Postfix ==
    /\ Done /\ PostfixStream =>
         /\ result = Ok(Applied(SubSeq(tokens, 1, Len(tokens) - 1), 2, Leaf(PosTok(1)).value))
         /\ cursor = Len(tokens)
    /\ Done /\ result.tag = "Ok" => Yield(result.value) = Consumed
    /\ Done /\ WholeInput(<<I("a"), K("Dot"), I("b"), K("LeftParen"), N("3"),
                            K("RightParen"), K("Dot"), I("c")>>) =>
         result = Ok(Get(Call(Get(Var("a", 1), WithSpan("b", 3)), <<Num("3")>>),
                         WithSpan("c", 8)))

\* `a.b(3).c` has been parsed, as Get(Call(Get(a,b),[3]),c)
C7_Witness ==
    /\ Done
    /\ WholeInput(<<I("a"), K("Dot"), I("b"), K("LeftParen"), N("3"),
                    K("RightParen"), K("Dot"), I("c")>>)
    /\ result = Ok(Get(Call(Get(Var("a", 1), WithSpan("b", 3)), <<Num("3")>>),
                       WithSpan("c", 8)))

-----------------------------------------------------------------------------
(* C8 *)

\* the next statement of the innermost function is a call of advance()
AdvancePending ==
    /\ Running
    /\ <<Top.fn, Top.pc>> \in
         { <<"parse_primary", "start">>, <<"parse_unary", "start">>,
           <<"parse_binary", "start">>, <<"parse_logical", "start">>,
           <<"parse_get", "name">> }

\* C8 as claimed: advance() is never invoked while the cursor is at
\* end-of-stream.
C8_AsClaimed == AdvancePending /\ Have => ~is_eof

-----------------------------------------------------------------------------
(* C9 *)

\* the loop of parse_expr or of parse_arguments is back at its test after an
\* iteration that began with the cursor at Top.mark
AfterIteration ==
    /\ At("parse_expr", "loop") \/ At("parse_arguments", "more")
    /\ ret.tag = "Ok"
    /\ Top.mark # 0

\* C9: parse terminates; an iteration of the infix loop or of the argument
\* loop that does not return a failure has consumed at least one token, so no
\* loop tests the same token twice.
C9_Terminates == [](AfterIteration => cursor > Top.mark) /\ <>Done

\* `a(3,4)` has been parsed: both loops have gone round and parse has returned
C9_Witness ==
    /\ Done
    /\ WholeInput(<<I("a"), K("LeftParen"), N("3"), K("Comma"), N("4"), K("RightParen")>>)
    /\ result = Ok(Call(Var("a", 1), <<Num("3"), Num("4")>>))

-----------------------------------------------------------------------------
(* C10 *)

\* C10: a stream that is the first one up to and including the token parse
\* left the cursor on gives the same result, the same AST or the same failure
\* with what it carries, and leaves the cursor at the same place.
C10_LookaheadOne ==
    Done /\ run = 2 => result = saved.result /\ cursor = saved.cursor

\* a second stream with tokens after the one the cursor is left on has been
\* parsed to the end
C10_Witness ==
    /\ Done
    /\ run = 2
    /\ result.tag = "Ok"
    /\ cursor + 1 < Len(tokens)
    /\ result = saved.result

-----------------------------------------------------------------------------
(* C11 *)

\* the failure kinds the dispatchers and the cursor can produce
ReachableKinds == {"Unexpected", "Expected", "InvalidLeftValue"}

\* the failure kinds of the arms that guard the helpers against a token of
\* another family
DefensiveKinds ==
    {"ExpectedUnaryOperator", "ExpectedBinaryOperator", "ExpectedPrimary"}

\* C11: every failure parse returns, and every failure one of its functions
\* returns on the way, is Unexpected, Expected or InvalidLeftValue; the
\* defensive kinds ExpectedUnaryOperator, ExpectedBinaryOperator and
\* ExpectedPrimary are never produced, each helper being entered only on a
\* token of its own family.
C11_DefensiveUnreachable ==
    \A r \in {ret, result} :
        r.tag = "Err" =>
            r.error.kind \in ReachableKinds /\ r.error.kind \notin DefensiveKinds

\* `-1 and` has failed: the unary, primary and logical helpers have each
\* consumed their token and parse has returned Unexpected on the end token
C11_Witness ==
    /\ Done
    /\ WholeInput(<<K("Minus"), N("1"), K("And")>>)
    /\ result = Err(Unexpected([kind |-> "Eof", val |-> "", span |-> 4]))

====
